---- MODULE Spec2Model ----
(***************************************************************************)
(* drawpia: a randomized draw of entries into equally sized groups.        *)
(* Model of src/drawpia/manager.py (Group, Manager) over the data that     *)
(* src/drawpia/extractor.py (Entry, Extractor) supplies.                   *)
(***************************************************************************)
EXTENDS Integers, Sequences, FiniteSets, TLC

\* ------------------------------------------------------------- bounds
\* longest entries file modelled (number of entries the Extractor holds)
MaxEntries == 4
\* longest text typed at the group size prompt
MaxLen == 1
\* tried_optional is only ever compared with OptionalSweeps; it is counted
\* exactly up to MaxTried and stays there.  MaxTried is above
\* OptionalSweeps + MaxEntries, the most sweeps a draw that returns can make,
\* so only a draw that never returns gets there
MaxTried == 15
\* largest capacity of the stand-alone Group exercised by GroupSpec
MaxSize == 3
\* LongSpec: how many of the enforced sweeps of the long draw are explored
\* with every outcome of random.choice (the sweeps before them are taken
\* with one outcome)
LongExplored == 3

\* ------------------------------------------------------------- constants
\* `tried_optional < 10`
OptionalSweeps == 10
\* the value of a level that is absent (None after the Extractor's clean-up)
NoLevel == ""
\* Manager._group_size / Manager._total_groups before any validation (None)
Unset == 0

RestrictedLevels == {"A", "B"}
OptionalLevels == {"X"}
Chars == {"0", "1", "2", "4", "-"}
Digits == {"0", "1", "2", "3", "4", "5", "6", "7", "8", "9"}

VARIABLES
    entries,        \* Extractor._entries: the list of Entry
    group_size,     \* Manager._group_size
    total_groups,   \* Manager._total_groups
    arg,            \* the text _confirm read and passed to _validate
    outcome,        \* how the last _validate call ended
    pc,             \* where perform() is
    groups,         \* _draw: groups
    picked,         \* _draw: picked
    sources,        \* _draw: sources
    lvl,            \* _draw: position of the `for level, items` loop
    gi,             \* _draw: position of the `for group in groups` loop
    tried_optional, \* _draw: tried_optional
    grp,            \* a stand-alone Group (GroupSpec)
    added           \* how the last add on grp ended (GroupSpec)

vars == <<entries, group_size, total_groups, arg, outcome, pc, groups, picked,
          sources, lvl, gi, tried_optional, grp, added>>

drawVars == <<groups, picked, sources, lvl, gi, tried_optional>>
mgrVars == <<group_size, total_groups, arg, outcome>>
grpVars == <<grp, added>>

\* ------------------------------------------------------------- Entry
Entry(row, r, o) == [row |-> row, restricted_level |-> r, optional_level |-> o]

\* what _select returns when nothing can be selected
None == Entry(0, NoLevel, NoLevel)

SeqSet(s) == {s[i] : i \in 1..Len(s)}

\* ------------------------------------------------------------- Extractor
count == Len(entries)

\* keys of a setdefault-built dict: levels in order of first appearance
LevelKeys(tags) ==
    LET F[i \in 0..Len(tags)] ==
            IF i = 0 THEN <<>>
            ELSE IF tags[i] = NoLevel \/ \E j \in 1..(i - 1) : tags[j] = tags[i]
                 THEN F[i - 1]
                 ELSE Append(F[i - 1], tags[i])
    IN F[Len(tags)]

restricted_keys == LevelKeys([i \in 1..Len(entries) |-> entries[i].restricted_level])
optional_keys == LevelKeys([i \in 1..Len(entries) |-> entries[i].optional_level])

restricted_entries(level) == {e \in SeqSet(entries) : e.restricted_level = level}
\* mutant: every entry is listed under every optional level
optional_entries_all(level) == SeqSet(entries)

optional_entries(level) == {e \in SeqSet(entries) : e.optional_level = level}

restricted_count(level) == Cardinality(restricted_entries(level))
optional_count(level) == Cardinality(optional_entries(level))

has_restricted == Len(restricted_keys) > 0
has_optional == Len(optional_keys) > 0

\* ------------------------------------------------------------- Group
NewGroup(size) == [size |-> size, entries |-> <<>>]

\* mutant: a group counts as full only once it is over its size
is_full_over(g) == Len(g.entries) > g.size

is_full(g) == Len(g.entries) >= g.size

group_has_restricted(g, level) ==
    IF level = NoLevel THEN FALSE
    ELSE \E i \in 1..Len(g.entries) : g.entries[i].restricted_level = level

group_has_optional(g, level) ==
    IF level = NoLevel THEN FALSE
    ELSE \E i \in 1..Len(g.entries) : g.entries[i].optional_level = level

\* mutant: add without the membership test
GroupAddUnchecked(g, entry) ==
    IF is_full(g) THEN [raised |-> "full", group |-> g]
    ELSE [raised |-> "no", group |-> [g EXCEPT !.entries = Append(@, entry)]]

\* Group.add: the group after the call, and whether the call raised
GroupAdd(g, entry) ==
    IF is_full(g) THEN [raised |-> "full", group |-> g]
    ELSE IF entry \in SeqSet(g.entries) THEN [raised |-> "duplicate", group |-> g]
    ELSE [raised |-> "no", group |-> [g EXCEPT !.entries = Append(@, entry)]]

\* ------------------------------------------------------------- Manager._validate
isdigit(s) == Len(s) > 0 /\ \A i \in 1..Len(s) : s[i] \in Digits

DigitValue(c) ==
    CASE c = "0" -> 0 [] c = "1" -> 1 [] c = "2" -> 2 [] c = "3" -> 3 [] c = "4" -> 4
      [] c = "5" -> 5 [] c = "6" -> 6 [] c = "7" -> 7 [] c = "8" -> 8 [] c = "9" -> 9

\* int(group_size) of a text of decimal digits
int(s) ==
    LET F[i \in 0..Len(s)] == IF i = 0 THEN 0 ELSE 10 * F[i - 1] + DigitValue(s[i])
    IN F[Len(s)]

\* mutant: the remainder test is left out
not_dividable_off(n) == FALSE

\* mutant: the remainder is taken by the group size a call before stored
not_dividable_stored(n) ==
    count % (IF group_size = Unset THEN n ELSE group_size) # 0

\* `self._extractor.count % group_size != 0`
not_dividable(n) == count % n # 0

\* mutant: the populations are compared with the entry count
restricted_overflow_count(n) ==
    /\ has_restricted
    /\ \E i \in 1..Len(restricted_keys) :
           restricted_count(restricted_keys[i]) > count

\* lines 180-183: some restricted level has more entries than there are groups
restricted_overflow(n) ==
    /\ has_restricted
    /\ \E i \in 1..Len(restricted_keys) :
           restricted_count(restricted_keys[i]) > count \div n

\* a raise of _validate: nothing is stored
Raise(why) == [outcome |-> why, group_size |-> group_size, total_groups |-> total_groups]

\* mutant: the remainder test comes before the comparison with the count
ValidateDividableFirst(s) ==
    IF Len(s) = 0 \/ ~isdigit(s) THEN Raise("invalid")
    ELSE IF int(s) <= 0 THEN Raise("not_positive")
    ELSE IF not_dividable(int(s)) THEN Raise("not_dividable")
    ELSE IF count < int(s) THEN Raise("bigger_than_count")
    ELSE IF restricted_overflow(int(s)) THEN Raise("restricted")
    ELSE [outcome |-> "ok", group_size |-> int(s), total_groups |-> count \div int(s)]

\* the result of _validate(s): how it ended and what it leaves stored
Validate(s) ==
    IF Len(s) = 0 \/ ~isdigit(s) THEN Raise("invalid")
    ELSE IF int(s) <= 0 THEN Raise("not_positive")
    ELSE IF count < int(s) THEN Raise("bigger_than_count")
    ELSE IF not_dividable(int(s)) THEN Raise("not_dividable")
    ELSE IF restricted_overflow(int(s)) THEN Raise("restricted")
    ELSE [outcome |-> "ok", group_size |-> int(s), total_groups |-> count \div int(s)]

\* ------------------------------------------------------------- Manager._select
\* mutant: the restricted test is left out
ConflictsOptionalOnly(selected, g, is_restricted, is_optional) ==
    is_optional /\ group_has_optional(g, selected.optional_level)

Conflicts(selected, g, is_restricted, is_optional) ==
    \/ is_restricted /\ group_has_restricted(g, selected.restricted_level)
    \/ is_optional /\ group_has_optional(g, selected.optional_level)

\* every entry _select can end up with over all outcomes of random.choice:
\* a conflicting choice is removed from the copy and the draw is repeated;
\* None when the copy runs empty
\* mutant: a conflicting choice ends the call with None, without a redraw
SelectNoRedraw(es, g, is_restricted, is_optional) ==
    IF es = {} THEN {None}
    ELSE { IF Conflicts(selected, g, is_restricted, is_optional)
           THEN None ELSE selected : selected \in es }

RECURSIVE Select(_, _, _, _)
Select(es, g, is_restricted, is_optional) ==
    IF es = {} THEN {None}
    ELSE UNION { IF Conflicts(selected, g, is_restricted, is_optional)
                 THEN Select(es \ {selected}, g, is_restricted, is_optional)
                 ELSE {selected} : selected \in es }

\* the runs of the same call with the redraws counted: what each run
\* returns and how many times it called itself on the way
RECURSIVE SelectRuns(_, _, _, _, _)
SelectRuns(es, g, is_restricted, is_optional, redraws) ==
    IF es = {} THEN {[selected |-> None, redraws |-> redraws]}
    ELSE UNION { IF Conflicts(selected, g, is_restricted, is_optional)
                 THEN SelectRuns(es \ {selected}, g, is_restricted, is_optional,
                                 redraws + 1)
                 ELSE {[selected |-> selected, redraws |-> redraws]}
                 : selected \in es }

\* ------------------------------------------------------------- Manager._draw helpers
\* mutant: the picked entries are not taken out
RemainingAll(items) == items

\* list(set(items).difference(set(picked)))
Remaining(items) == items \ SeqSet(picked)

\* mutant: a full group is not skipped in phase 1
skip_restricted_level_only(g, level) == group_has_restricted(g, level)

\* `group.is_full or group.has_restricted(level)`
skip_restricted(g, level) == is_full(g) \/ group_has_restricted(g, level)

\* mutant: a group that holds the level already is not skipped
skip_optional_full_only(g, level) == is_full(g)

\* `group.is_full or group.has_optional(level)`
skip_optional(g, level) == is_full(g) \/ group_has_optional(g, level)

\* mutant: the optional test is never lifted
enforce_always == TRUE

\* mutant: the optional test is not passed on in phase 3
enforce_never == FALSE

\* is_optional=tried_optional < 10
enforce_optional == tried_optional < OptionalSweeps

\* ------------------------------------------------------------- initial states
EntryLists ==
    UNION { { [i \in 1..n |-> Entry(i, t[i][1], t[i][2])] :
              t \in [1..n -> (RestrictedLevels \cup {NoLevel})
                               \X (OptionalLevels \cup {NoLevel})] }
            : n \in 1..MaxEntries }

Inputs == UNION { [1..n -> Chars] : n \in 0..MaxLen }

Init ==
    /\ entries \in EntryLists
    /\ group_size = Unset
    /\ total_groups = Unset
    /\ arg = <<>>
    /\ outcome = "none"
    /\ pc = "idle"
    /\ groups = <<>>
    /\ picked = <<>>
    /\ sources = {}
    /\ lvl = 0
    /\ gi = 0
    /\ tried_optional = 0
    /\ grp = NewGroup(0)
    /\ added = [entry |-> None, raised |-> "none"]

\* ------------------------------------------------------------- perform()
\* _confirm: read the group size and validate it; perform goes on to _draw
\* only when _validate did not raise
Confirm(s) ==
    /\ pc = "idle"
    /\ LET v == Validate(s) IN
        /\ arg' = s
        /\ outcome' = v.outcome
        /\ group_size' = v.group_size
        /\ total_groups' = v.total_groups
        /\ pc' = IF v.outcome = "ok" THEN "draw" ELSE "rejected"
    /\ UNCHANGED <<entries, drawVars, grpVars>>

\* perform, line 330: the ValueError of _validate leaves perform; _draw is
\* not reached
Rejected ==
    /\ pc = "rejected"
    /\ pc' = "idle"
    /\ arg' = <<>>
    /\ outcome' = "none"
    /\ UNCHANGED <<entries, group_size, total_groups, drawVars, grpVars>>

\* _draw, lines 255-259: the empty groups
DrawInit ==
    /\ pc = "draw"
    /\ groups' = [i \in 1..total_groups |-> NewGroup(group_size)]
    /\ picked' = <<>>
    /\ pc' = "phase1"
    /\ lvl' = 1
    /\ gi' = 0
    /\ arg' = <<>>
    /\ UNCHANGED <<entries, group_size, total_groups, outcome, sources,
                   tried_optional, grpVars>>

\* mutant: _select redraws on the caller's list, so a call that returns None
\* has emptied it
PlaceOnList(is_restricted, is_optional) ==
    \E selected \in Select(sources, groups[gi], is_restricted, is_optional) :
        IF selected = None
        THEN /\ gi' = gi + 1
             /\ sources' = {}
             /\ UNCHANGED <<groups, picked, pc>>
        ELSE /\ groups' = [groups EXCEPT ![gi] = GroupAdd(groups[gi], selected).group]
             /\ picked' = Append(picked, selected)
             /\ sources' = sources \ {selected}
             /\ gi' = gi + 1
             /\ pc' = pc

\* one pass of a `for group in groups` body past its skip tests: the call of
\* _select and what the loop does with its result
Place(is_restricted, is_optional) ==
    \E selected \in Select(sources, groups[gi], is_restricted, is_optional) :
        IF selected = None
        THEN /\ gi' = gi + 1
             /\ UNCHANGED <<groups, picked, sources, pc>>
        ELSE LET r == GroupAdd(groups[gi], selected) IN
             IF r.raised # "no"
             THEN /\ pc' = "raised"
                  /\ UNCHANGED <<groups, picked, sources, gi>>
             ELSE /\ groups' = [groups EXCEPT ![gi] = r.group]
                  /\ picked' = Append(picked, selected)
                  /\ sources' = sources \ {selected}
                  /\ gi' = gi + 1
                  /\ pc' = pc

\* phase 1, lines 261-263: next restricted level, or on to phase 2
P1Level ==
    /\ pc = "phase1" /\ gi = 0
    /\ IF has_restricted /\ lvl <= Len(restricted_keys)
       THEN /\ sources' = Remaining(restricted_entries(restricted_keys[lvl]))
            /\ gi' = 1
            /\ UNCHANGED <<pc, lvl>>
       ELSE /\ pc' = "phase2"
            /\ lvl' = 1
            /\ UNCHANGED <<sources, gi>>
    /\ UNCHANGED <<entries, mgrVars, groups, picked, tried_optional, grpVars>>

\* phase 1, lines 264-278: one group of the inner loop
P1Group ==
    /\ pc = "phase1" /\ gi >= 1
    /\ IF gi > Len(groups) \/ sources = {}
       THEN /\ lvl' = lvl + 1
            /\ gi' = 0
            /\ UNCHANGED <<groups, picked, sources, pc>>
       ELSE IF skip_restricted(groups[gi], restricted_keys[lvl])
       THEN /\ gi' = gi + 1
            /\ UNCHANGED <<groups, picked, sources, pc, lvl>>
       ELSE /\ Place(FALSE, TRUE)
            /\ UNCHANGED lvl
    /\ UNCHANGED <<entries, mgrVars, tried_optional, grpVars>>

\* phase 2, lines 280-282: next optional level, or on to phase 3 (303-304)
P2Level ==
    /\ pc = "phase2" /\ gi = 0
    /\ IF has_optional /\ lvl <= Len(optional_keys)
       THEN /\ sources' = Remaining(optional_entries(optional_keys[lvl]))
            /\ gi' = 1
            /\ UNCHANGED <<pc, lvl, tried_optional>>
       ELSE /\ pc' = "phase3"
            /\ tried_optional' = 0
            /\ sources' = Remaining(SeqSet(entries))
            /\ UNCHANGED <<lvl, gi>>
    /\ UNCHANGED <<entries, mgrVars, groups, picked, grpVars>>

\* phase 2, lines 283-297: one group of the inner loop
P2Group ==
    /\ pc = "phase2" /\ gi >= 1
    /\ IF gi > Len(groups) \/ sources = {}
       THEN /\ lvl' = lvl + 1
            /\ gi' = 0
            /\ UNCHANGED <<groups, picked, sources, pc>>
       ELSE IF skip_optional(groups[gi], optional_keys[lvl])
       THEN /\ gi' = gi + 1
            /\ UNCHANGED <<groups, picked, sources, pc, lvl>>
       ELSE /\ Place(TRUE, FALSE)
            /\ UNCHANGED lvl
    /\ UNCHANGED <<entries, mgrVars, tried_optional, grpVars>>

\* phase 3, line 305 and 323: the while test; _draw returns when it fails
P3While ==
    /\ pc = "phase3" /\ gi = 0
    /\ IF Len(picked) < count
       THEN /\ gi' = 1
            /\ pc' = pc
       ELSE /\ pc' = "done"
            /\ gi' = gi
    /\ UNCHANGED <<entries, mgrVars, groups, picked, sources, lvl,
                   tried_optional, grpVars>>

\* phase 3, lines 306-321: one group of a sweep, or the end of the sweep
P3Group ==
    /\ pc = "phase3" /\ gi >= 1
    /\ IF gi > Len(groups) \/ sources = {}
       THEN /\ tried_optional' =
                    IF tried_optional < MaxTried THEN tried_optional + 1
                    ELSE tried_optional
            /\ gi' = 0
            /\ UNCHANGED <<groups, picked, sources, pc>>
       ELSE IF is_full(groups[gi])
       THEN /\ gi' = gi + 1
            /\ UNCHANGED <<groups, picked, sources, pc, tried_optional>>
       ELSE /\ Place(TRUE, enforce_optional)
            /\ UNCHANGED tried_optional
    /\ UNCHANGED <<entries, mgrVars, lvl, grpVars>>

\* perform, lines 332-338: the groups are printed and dropped
Finish ==
    /\ pc = "done"
    /\ pc' = "idle"
    /\ groups' = <<>>
    /\ picked' = <<>>
    /\ sources' = {}
    /\ lvl' = 0
    /\ gi' = 0
    /\ tried_optional' = 0
    /\ outcome' = "none"
    /\ UNCHANGED <<entries, group_size, total_groups, arg, grpVars>>

\* _draw is about to call _select: the loop is at a group, sources is not
\* empty and the skip test of the phase let the group through
AtSelect ==
    /\ pc \in {"phase1", "phase2", "phase3"}
    /\ gi \in 1..Len(groups)
    /\ sources # {}
    /\ CASE pc = "phase1" -> ~skip_restricted(groups[gi], restricted_keys[lvl])
         [] pc = "phase2" -> ~skip_optional(groups[gi], optional_keys[lvl])
         [] pc = "phase3" -> ~is_full(groups[gi])

\* the is_restricted and the is_optional argument of that call
CallRestricted == pc \in {"phase2", "phase3"}
CallOptional == pc = "phase1" \/ (pc = "phase3" /\ enforce_optional)

Next ==
    \/ \E s \in Inputs : Confirm(s)
    \/ Rejected
    \/ DrawInit
    \/ P1Level
    \/ P1Group
    \/ P2Level
    \/ P2Group
    \/ P3While
    \/ P3Group
    \/ Finish

Spec == Init /\ [][Next]_vars

\* ------------------------------------------------------------- a long draw
\* An entries file for one group larger than OptionalSweeps: two entries of
\* one optional level and OptionalSweeps + 1 entries with no level.  The
\* group size is the entry count, so there is one group.
LongEntries ==
    [i \in 1..(OptionalSweeps + 3) |->
        IF i <= 2 THEN Entry(i, NoLevel, "X") ELSE Entry(i, NoLevel, NoLevel)]

LowestRow(S) == CHOOSE e \in S : \A o \in S : e.row <= o.row

\* one pass of a `for group in groups` body past its skip tests, on the one
\* group, with random.choice giving the lowest row it can give
Put(st, is_restricted, is_optional) ==
    LET selected == LowestRow(Select(st.sources, st.group, is_restricted, is_optional))
    IN IF selected = None THEN st
       ELSE [group |-> GroupAdd(st.group, selected).group,
             picked |-> Append(st.picked, selected),
             sources |-> st.sources \ {selected}]

\* _draw on LongEntries up to line 304: phase 1 is skipped (no restricted
\* level); phase 2 visits the one, empty group for the one optional level
LongPhase3 ==
    LET st == Put([group |-> NewGroup(Len(LongEntries)),
                   picked |-> <<>>,
                   sources |-> {e \in SeqSet(LongEntries) : e.optional_level = "X"}],
                  TRUE, FALSE)
    IN [st EXCEPT !.sources = SeqSet(LongEntries) \ SeqSet(st.picked)]

\* _draw on LongEntries after k sweeps of phase 3 (k <= OptionalSweeps)
LongSweeps(k) ==
    LET F[i \in 0..k] ==
            IF i = 0 THEN LongPhase3
            ELSE IF F[i - 1].sources = {} \/ is_full(F[i - 1].group) THEN F[i - 1]
            ELSE Put(F[i - 1], TRUE, i - 1 < OptionalSweeps)
    IN F[k]

\* the long draw at the while test, OptionalSweeps - LongExplored sweeps done
LongInit ==
    LET k == OptionalSweeps - LongExplored IN
    /\ entries = LongEntries
    /\ group_size = Len(LongEntries)
    /\ total_groups = 1
    /\ arg = <<>>
    /\ outcome = "ok"
    /\ pc = "phase3"
    /\ groups = <<LongSweeps(k).group>>
    /\ picked = LongSweeps(k).picked
    /\ sources = LongSweeps(k).sources
    /\ lvl = 2
    /\ gi = 0
    /\ tried_optional = k
    /\ grp = NewGroup(0)
    /\ added = [entry |-> None, raised |-> "none"]

\* one perform() call on a manager over a short entries file, or the rest
\* of the long draw
LongNext ==
    \/ \E s \in Inputs : Confirm(s)
    \/ Rejected
    \/ DrawInit
    \/ P1Level
    \/ P1Group
    \/ P2Level
    \/ P2Group
    \/ P3While
    \/ P3Group

LongSpec == (Init \/ LongInit) /\ [][LongNext]_vars

\* ------------------------------------------------------------- a Group alone
\* entries handed to Group.add: they differ in the row or in a level
AddPool == {Entry(i, r, NoLevel) : i \in 1..(MaxSize + 1), r \in {NoLevel, "A"}}

\* Group(name, size): a new group and nothing else
GroupInit ==
    /\ entries = <<>>
    /\ group_size = Unset
    /\ total_groups = Unset
    /\ arg = <<>>
    /\ outcome = "none"
    /\ pc = "group"
    /\ groups = <<>>
    /\ picked = <<>>
    /\ sources = {}
    /\ lvl = 0
    /\ gi = 0
    /\ tried_optional = 0
    /\ \E size \in 0..MaxSize : grp = NewGroup(size)
    /\ added = [entry |-> None, raised |-> "none"]

\* one call grp.add(entry); a raise leaves the caller with the group as it is
Add(entry) ==
    /\ pc = "group"
    /\ grp' = GroupAdd(grp, entry).group
    /\ added' = [entry |-> entry, raised |-> GroupAdd(grp, entry).raised]
    /\ UNCHANGED <<entries, mgrVars, pc, drawVars>>

GroupNext == \E entry \in AddPool : Add(entry)

GroupSpec == GroupInit /\ [][GroupNext]_vars

\* the draw is one synchronous call: a step that can be taken is taken
FairSpec == Spec /\ WF_vars(Next)

\* ------------------------------------------------------------- properties
Members(g) == SeqSet(g.entries)

\* two members of g at different positions carry the same restricted level
RestrictedClash(g) ==
    \E i, j \in 1..Len(g.entries) :
        /\ i < j
        /\ g.entries[i].restricted_level # NoLevel
        /\ g.entries[i].restricted_level = g.entries[j].restricted_level

\* two members of g at different positions carry the same optional level
OptionalClash(g) ==
    \E i, j \in 1..Len(g.entries) :
        /\ i < j
        /\ g.entries[i].optional_level # NoLevel
        /\ g.entries[i].optional_level = g.entries[j].optional_level

AllGroups == {groups[i] : i \in 1..Len(groups)}

\* how many (group, position) pairs hold entry e
Occurrences(e) ==
    Cardinality({ <<i, j>> \in (1..Len(groups)) \X (1..MaxEntries + 1) :
                    j <= Len(groups[i].entries) /\ groups[i].entries[j] = e })

\* C1: on validated input the draw terminates: _draw returns with every
\* group full and no group holding two members of one restricted level.
C1_DrawTerminates ==
    (pc = "draw") ~>
        (/\ pc = "done"
         /\ \A g \in AllGroups : is_full(g) /\ ~RestrictedClash(g))

\* C2: at every point of a draw no group holds two members that carry the
\* same restricted level.
C2_RestrictedNeverShared == \A g \in AllGroups : ~RestrictedClash(g)

C2_Witness ==
    /\ pc = "done"
    /\ group_size >= 2
    /\ \E level \in RestrictedLevels : restricted_count(level) >= 2
    /\ \E g \in AllGroups :
           \E e \in Members(g) : e.restricted_level # NoLevel /\ Len(g.entries) >= 2

\* C3: when _draw returns, every entry of the extractor is held by exactly
\* one group at exactly one position, and the groups hold nothing else.
C3_PartitionComplete ==
    pc = "done" =>
        /\ \A e \in SeqSet(entries) : Occurrences(e) = 1
        /\ \A g \in AllGroups : Members(g) \subseteq SeqSet(entries)

C3_Witness ==
    /\ pc = "done"
    /\ count = 4
    /\ total_groups = 2
    /\ has_restricted /\ has_optional

\* C4: when _draw returns there are total_groups groups and each holds
\* exactly group_size members.
C4_CapacityExact ==
    pc = "done" =>
        /\ Len(groups) = total_groups
        /\ \A g \in AllGroups : Len(g.entries) = group_size

C4_Witness ==
    /\ pc = "done"
    /\ count = 4
    /\ group_size = 2
    /\ \A g \in AllGroups : Len(g.entries) = 2

\* a text that denotes a natural number: decimal digits, at least one
Numeral(s) == Len(s) > 0 /\ \A i \in 1..Len(s) : s[i] \in Digits

\* text s denotes the number n
Denotes(s, n) == Numeral(s) /\ n = int(s)

\* a group size the validator has to accept: a positive integer n, at most
\* the entry count, dividing it, with no restricted level more populous than
\* the count / n groups
Acceptable(n) ==
    /\ n > 0
    /\ n <= count
    /\ \E k \in 1..count : k * n = count
    /\ \A level \in RestrictedLevels :
           \A k \in 1..count : k * n = count => restricted_count(level) <= k

\* C5: _validate accepts exactly the positive integers that are at most the
\* entry count, divide it and leave every restricted level with no more
\* entries than groups; on acceptance group_size is stored and
\* total_groups * group_size = entry count.
C5_ValidateAcceptsIff ==
    pc \in {"draw", "rejected"} =>
        /\ (outcome = "ok") <=> (Numeral(arg) /\ Acceptable(int(arg)))
        /\ outcome = "ok" =>
               /\ Denotes(arg, group_size)
               /\ total_groups * group_size = count

C5_Witness ==
    /\ pc = "draw"
    /\ outcome = "ok"
    /\ count = 4
    /\ group_size = 2
    /\ total_groups = 2

\* a group size that passes every check but the restricted one
RestrictedExceeds(s) ==
    \E n \in 1..count :
        /\ Denotes(s, n)
        /\ \E k \in 1..count :
               /\ k * n = count
               /\ \E level \in RestrictedLevels : restricted_count(level) > k

\* C6: a _validate call on a group size that leaves some restricted level
\* with more entries than groups fails: perform does not reach _draw, no
\* group exists, nothing is placed, and _group_size and _total_groups keep
\* the values they had before the call.
C6_RejectedBeforeGroups ==
    [][(pc = "idle" /\ RestrictedExceeds(arg')) =>
           /\ pc' = "rejected"
           /\ groups' = <<>>
           /\ picked' = <<>>
           /\ group_size' = group_size
           /\ total_groups' = total_groups]_vars

C6_Witness ==
    /\ pc = "rejected"
    /\ outcome = "restricted"
    /\ RestrictedExceeds(arg)
    /\ group_size # Unset
    /\ total_groups # Unset
    /\ groups = <<>>

\* C7: when no entry carries a restricted level, a draw on accepted input
\* terminates with every entry placed, whatever the optional levels are:
\* the while loop of phase 3 never starts a sweep beyond the 10 enforced
\* ones and group_size lifted ones, and when it ends every entry is placed.
C7_OptionalOnlyTerminates ==
    (~has_restricted /\ pc \in {"phase3", "done"}) =>
        /\ tried_optional <= OptionalSweeps + group_size
        /\ pc = "done" =>
               /\ Len(picked) = count
               /\ \A e \in SeqSet(entries) : Occurrences(e) = 1

\* the same as a leads-to, under FairSpec
C7_OptionalOnlyLeadsToDone ==
    (pc = "draw" /\ ~has_restricted) ~>
        (/\ pc = "done"
         /\ Len(picked) = count
         /\ \A e \in SeqSet(entries) : Occurrences(e) = 1)

\* an optional level more populous than the groups: a clash is unavoidable,
\* and the draw has returned with one, after the tenth sweep
C7_Witness ==
    /\ pc = "done"
    /\ ~has_restricted
    /\ \E level \in OptionalLevels : optional_count(level) > total_groups
    /\ \E g \in AllGroups : OptionalClash(g)
    /\ tried_optional > OptionalSweeps
    /\ Len(picked) = count

\* group i gets entry e appended by this step
Placed(i, e) ==
    /\ Len(groups') = Len(groups)
    /\ groups'[i].entries = Append(groups[i].entries, e)

\* entry e shares its optional level with a member of g
SharesOptional(e, g) ==
    /\ e.optional_level # NoLevel
    /\ \E m \in Members(g) : m.optional_level = e.optional_level

\* entry e shares its restricted level with a member of g
SharesRestricted(e, g) ==
    /\ e.restricted_level # NoLevel
    /\ \E m \in Members(g) : m.restricted_level = e.restricted_level

HasRoom(g) == Len(g.entries) < g.size

\* C8 (as claimed): no step places an entry into a group where it shares
\* its optional level with a member while a remaining candidate that shares
\* neither level with a member of that group is available.
C8_NoClashWhileCandidateLeft ==
    [][\A i \in 1..Len(groups) : \A e \in sources :
          (Placed(i, e) /\ SharesOptional(e, groups[i])) =>
              ~ \E c \in sources :
                    ~SharesOptional(c, groups[i]) /\ ~SharesRestricted(c, groups[i])]_vars

\* C8 (amended): no step places an entry into a group where it shares its
\* optional level with a member unless that entry shares a restricted or an
\* optional level with a member of every group that still has room.
C8_ClashOnlyWhenEntryFitsNowhere ==
    [][\A i \in 1..Len(groups) : \A e \in sources :
          (Placed(i, e) /\ SharesOptional(e, groups[i])) =>
              \A j \in 1..Len(groups) :
                  HasRoom(groups[j]) =>
                      SharesOptional(e, groups[j]) \/ SharesRestricted(e, groups[j])]_vars

\* a draw has returned with a clash in one group while another group holds
\* no member of that optional level
C8_Witness ==
    /\ pc = "done"
    /\ total_groups >= 2
    /\ \E g \in AllGroups : OptionalClash(g)
    /\ \E g \in AllGroups : \A m \in Members(g) : m.optional_level = NoLevel

\* C9: while fewer than 10 sweeps of phase 3 have been completed (phases 1
\* and 2 included) no group holds two members of one optional level.
C9_OptionalEnforcedFirstSweeps ==
    tried_optional < OptionalSweeps => \A g \in AllGroups : ~OptionalClash(g)

\* the last enforced sweep, with an entry left that would clash
C9_Witness ==
    /\ pc = "phase3"
    /\ tried_optional = OptionalSweeps - 1
    /\ \E g \in AllGroups :
           /\ ~is_full(g)
           /\ \E e \in sources : group_has_optional(g, e.optional_level)

\* C10: a Group never holds more members than its size; an add to a full
\* group and an add of a member are rejected, a rejected add leaves the
\* members as they are, an accepted add appends the entry at the end.
C10_GroupAdd ==
    /\ [](Len(grp.entries) <= grp.size)
    /\ [][LET entry == added'.entry IN
            /\ Len(grp.entries) >= grp.size => added'.raised # "no"
            /\ entry \in Members(grp) => added'.raised # "no"
            /\ added'.raised # "no" => grp'.entries = grp.entries
            /\ added'.raised = "no" => grp'.entries = grp.entries \o <<entry>>
            /\ grp'.size = grp.size]_vars

C10_Witness ==
    /\ pc = "group"
    /\ grp.size = MaxSize
    /\ Len(grp.entries) = MaxSize
    /\ added.raised = "full"

\* _draw is between its first and its last line
InDraw == pc \in {"phase1", "phase2", "phase3"}

\* C11: during a draw neither guard of Group.add fires: no add raises, and
\* every entry a step adds to a group goes to a group that is not full and
\* is, before the step, a member of no group and not in picked.
C11_AddGuardsNeverFire ==
    /\ [](pc # "raised")
    /\ [][\A i \in 1..Len(groups) : \A e \in SeqSet(entries) :
            Placed(i, e) =>
                /\ ~is_full(groups[i])
                /\ Occurrences(e) = 0
                /\ e \notin SeqSet(picked)]_vars

\* a draw in progress in phase 3: entries are placed, one group is full
\* already, another still has room and candidates are left for it
C11_Witness ==
    /\ pc = "phase3"
    /\ gi >= 1
    /\ Len(picked) >= 2
    /\ sources # {}
    /\ \E g \in AllGroups : is_full(g)
    /\ \E g \in AllGroups : ~is_full(g)

\* list a is the beginning of list b
IsPrefix(a, b) == Len(a) <= Len(b) /\ SubSeq(b, 1, Len(a)) = a

\* C12: picked and the member lists only grow during a draw: every step
\* keeps what they hold, in place, and adds at the end; and at every point
\* picked has no entry twice, no entry is held by two groups or twice by
\* one, and picked holds exactly the members of the groups.
C12_PickedOnlyGrows ==
    /\ [](/\ \A i, j \in 1..Len(picked) : picked[i] = picked[j] => i = j
          /\ \A e \in SeqSet(entries) : Occurrences(e) <= 1
          /\ SeqSet(picked) = UNION {Members(g) : g \in AllGroups})
    /\ [][InDraw =>
            /\ IsPrefix(picked, picked')
            /\ Len(groups') = Len(groups)
            /\ \A i \in 1..Len(groups) :
                   /\ IsPrefix(groups[i].entries, groups'[i].entries)
                   /\ groups'[i].size = groups[i].size]_vars

\* phase 2 at work after phase 1 placed entries in two groups
C12_Witness ==
    /\ pc = "phase2"
    /\ gi >= 1
    /\ Len(picked) >= 2
    /\ Cardinality({i \in 1..Len(groups) : groups[i].entries # <<>>}) >= 2
    /\ sources # {}

\* C13: _validate called again with the same text, on the same entries,
\* right after a call of it, ends as that call ended and leaves stored what
\* that call left stored: the call depends on the text and the entries and
\* not on what an earlier call stored.
C13_ValidateIdempotent ==
    [][\A s \in Inputs :
          (pc = "idle" /\ pc' \in {"draw", "rejected"} /\ arg' = s) =>
              /\ entries' = entries
              /\ Validate(s)'.outcome = outcome'
              /\ Validate(s)'.group_size = group_size'
              /\ Validate(s)'.total_groups = total_groups']_vars

\* a call that raised on a manager that holds the numbers of an earlier,
\* accepted call with another group size
C13_Witness ==
    /\ pc = "rejected"
    /\ outcome = "not_dividable"
    /\ group_size # Unset
    /\ Numeral(arg)
    /\ int(arg) # group_size

\* C14: the phases run in order and each takes from what the phases before
\* left: an entry placed in phase 1 carries a restricted level, an entry
\* placed in phase 2 carries an optional level and was not placed before,
\* an entry with neither level is placed in phase 3 only, every placed entry
\* comes from sources, and sources never holds an entry already placed.
C14_PhasesConsumeRemainder ==
    /\ [](InDraw => sources \cap SeqSet(picked) = {})
    /\ [][/\ pc = "phase1" => pc' \in {"phase1", "phase2"}
          /\ pc = "phase2" => pc' \in {"phase2", "phase3"}
          /\ pc = "phase3" => pc' \in {"phase3", "done"}
          /\ \A i \in 1..Len(groups) : \A e \in SeqSet(entries) :
                 Placed(i, e) =>
                     /\ InDraw
                     /\ e \in sources
                     /\ e \notin SeqSet(picked)
                     /\ pc = "phase1" => e.restricted_level # NoLevel
                     /\ pc = "phase2" => e.optional_level # NoLevel
                     /\ (e.restricted_level = NoLevel /\ e.optional_level = NoLevel)
                            => pc = "phase3"]_vars

\* phase 3 with an entry of neither level still to place, after phase 1
\* placed a restricted entry and phase 2 an entry of an optional level only
C14_Witness ==
    /\ pc = "phase3"
    /\ \E e \in sources : e.restricted_level = NoLevel /\ e.optional_level = NoLevel
    /\ \E e \in SeqSet(picked) : e.restricted_level # NoLevel
    /\ \E e \in SeqSet(picked) : e.restricted_level = NoLevel /\ e.optional_level # NoLevel

\* entry e conflicts with group g under the checks that are switched on
ConflictsEnabled(e, g, is_restricted, is_optional) ==
    \/ is_restricted /\ SharesRestricted(e, g)
    \/ is_optional /\ SharesOptional(e, g)

\* the candidates of list es that group g can take under those checks
Fitting(es, g, is_restricted, is_optional) ==
    {e \in es : ~ConflictsEnabled(e, g, is_restricted, is_optional)}

\* C15: at every call of _select in a draw (the group has room), and for
\* every candidate list made of the entries on offer there, the empty list
\* included: _select returns None exactly when no candidate fits the group
\* under the checks that are switched on, otherwise it returns a candidate
\* that fits, and any of them can be the one; no run of the call redraws
\* more often than the list is long.  The step of the call places exactly
\* one fitting candidate when there is one and nothing when there is none.
C15_SelectNoneOnlyWhenExhausted ==
    /\ [](AtSelect =>
            \A es \in SUBSET sources :
                LET g == groups[gi]
                    fit == Fitting(es, g, CallRestricted, CallOptional)
                    runs == SelectRuns(es, g, CallRestricted, CallOptional, 0)
                IN /\ Select(es, g, CallRestricted, CallOptional)
                          = IF fit = {} THEN {None} ELSE fit
                   /\ {x.selected : x \in runs}
                          = Select(es, g, CallRestricted, CallOptional)
                   /\ \A x \in runs : x.redraws <= Cardinality(es))
    /\ [][AtSelect =>
            LET fit == Fitting(sources, groups[gi], CallRestricted, CallOptional)
            IN IF fit = {}
               THEN groups' = groups /\ picked' = picked
               ELSE \E e \in fit :
                        /\ picked' = Append(picked, e)
                        /\ groups' = [groups EXCEPT ![gi].entries = Append(@, e)]]_vars

\* phase 3 right after a call that returned None: the group before the
\* current one has room, candidates are left, each of them conflicts with
\* it, and one of them through the optional level only
C15_Witness ==
    /\ pc = "phase3"
    /\ gi \in 2..(Len(groups) + 1)
    /\ sources # {}
    /\ ~is_full(groups[gi - 1])
    /\ Fitting(sources, groups[gi - 1], TRUE, enforce_optional) = {}
    /\ enforce_optional
    /\ \E e \in sources : ~SharesRestricted(e, groups[gi - 1])

\* C16: a call of _select and the statements of the loop body after it
\* either change nothing but the loop position (None was returned: group,
\* picked and sources are as before, the candidates the call redrew
\* included) or append one entry of sources to the current group and to
\* picked and take exactly that entry out of sources; no other group and
\* nothing else of the draw changes.
C16_SelectFrame ==
    [][AtSelect =>
          /\ \/ groups' = groups /\ picked' = picked /\ sources' = sources
             \/ \E e \in sources :
                    /\ groups' = [groups EXCEPT ![gi].entries = Append(@, e)]
                    /\ picked' = Append(picked, e)
                    /\ sources' = sources \ {e}
          /\ gi' = gi + 1
          /\ UNCHANGED <<entries, group_size, total_groups, pc, lvl, tried_optional>>]_vars

\* phase 1 right after a call that returned an entry: it is the last of
\* picked and of the group before the current one, it is gone from sources
\* and the other candidates are still there
C16_Witness ==
    /\ pc = "phase1"
    /\ gi \in 2..(Len(groups) + 1)
    /\ picked # <<>>
    /\ groups[gi - 1].entries # <<>>
    /\ groups[gi - 1].entries[Len(groups[gi - 1].entries)] = picked[Len(picked)]
    /\ picked[Len(picked)] \notin sources
    /\ picked[Len(picked)].restricted_level = restricted_keys[lvl]
    /\ sources # {}

\* n entries per group do not come out even
Uneven(n) == ~ \E k \in 1..count : k * n = count

\* some restricted level has more entries than count / n, rounded down
OverPopulated(n) ==
    \E level \in RestrictedLevels : \E k \in 0..count :
        /\ k * n <= count
        /\ count < (k + 1) * n
        /\ restricted_count(level) > k

\* C17: _validate reports the first check that fails, in the order: not an
\* integer, not positive, bigger than the entry count, not dividing the
\* entry count, a restricted level more populous than the groups.  A later
\* check that would fail too is not reported, and the restricted failure is
\* only reported for a group size that divides the entry count.
C17_FirstFailureReported ==
    pc \in {"draw", "rejected"} =>
        /\ ~Numeral(arg) => outcome = "invalid"
        /\ Numeral(arg) =>
               LET n == int(arg) IN
               /\ n <= 0 => outcome = "not_positive"
               /\ (n > 0 /\ n > count) => outcome = "bigger_than_count"
               /\ (n > 0 /\ n <= count /\ Uneven(n)) => outcome = "not_dividable"
               /\ (n > 0 /\ n <= count /\ ~Uneven(n) /\ OverPopulated(n))
                      => outcome = "restricted"
               /\ outcome = "restricted" => ~Uneven(n)

\* a group size that fails two checks: it does not divide the entry count
\* and a restricted level is too populous; the first of the two is reported
C17_Witness ==
    /\ pc = "rejected"
    /\ outcome = "not_dividable"
    /\ Numeral(arg)
    /\ Uneven(int(arg))
    /\ OverPopulated(int(arg))

\* the optional test is lifted: ten sweeps of phase 3 are done
Lifted == tried_optional >= OptionalSweeps

\* no group with room can take any entry of sources, the optional test
\* lifted: each of them shares its restricted level with a member
NoFit ==
    \A i \in 1..Len(groups) :
        ~is_full(groups[i]) => Fitting(sources, groups[i], TRUE, FALSE) = {}

\* this step ends a sweep: the for loop is through the groups or broke off
SweepEnds == pc = "phase3" /\ gi >= 1 /\ gi' = 0

\* C18: in phase 3 a sweep visits the groups one after the other and a visit
\* places at most one entry, into the group visited; a step that places no
\* entry leaves groups, picked and sources as they are, and the end of a
\* sweep adds one to tried_optional (counted up to MaxTried).  With the
\* optional test lifted, a visit of a group with room places nothing only
\* when no entry of sources fits that group, so a sweep that places nothing
\* ends with no entry fitting any group with room; and from such a state on
\* no step places an entry: groups, picked and sources stay as they are,
\* the state stays such a state and _draw does not return.
C18_SweepPlacesOnePerGroup ==
    [][pc = "phase3" =>
          /\ gi >= 1 => (gi' = gi + 1 \/ SweepEnds)
          /\ \A i \in 1..Len(groups) :
                 groups'[i] # groups[i] =>
                     /\ i = gi
                     /\ gi' = gi + 1
                     /\ \E e \in sources :
                            /\ groups'[i].entries = Append(groups[i].entries, e)
                            /\ picked' = Append(picked, e)
          /\ picked' = picked => (groups' = groups /\ sources' = sources)
          /\ tried_optional' =
                 IF SweepEnds /\ tried_optional < MaxTried
                 THEN tried_optional + 1 ELSE tried_optional
          /\ (Lifted /\ AtSelect /\ picked' = picked) =>
                 Fitting(sources, groups[gi], TRUE, FALSE) = {}
          /\ (Lifted /\ NoFit /\ Len(picked) < count) =>
                 /\ groups' = groups /\ picked' = picked /\ sources' = sources
                 /\ pc' = "phase3"
                 /\ NoFit']_vars

\* two lifted sweeps are over, an entry is still to place and fits no
\* group with room
C18_Witness ==
    /\ pc = "phase3"
    /\ gi = 0
    /\ tried_optional >= OptionalSweeps + 2
    /\ Len(picked) < count
    /\ sources # {}
    /\ NoFit

====
